---- MODULE Spec2Model ----
(***************************************************************************)
(* Model of the TenacityTracker client state store: the AppState value,    *)
(* the reducer appReducer with one action per AppAction variant, and the   *)
(* checklist catalog accessor createMilestoneFromStep.                     *)
(*                                                                         *)
(* JavaScript values are represented as follows.                           *)
(*   null user / null rep   the records NullUser / NullRep (id "null")     *)
(*   undefined stamp        the empty tuple (completedAt) or the string    *)
(*                          "undefined" (completedBy)                      *)
(*   rep.milestones         a sequence plus the flag isArray, the result   *)
(*                          of Array.isArray(rep.milestones)               *)
(*   milestone.subTasks     a sequence plus the flag hasSubTasks, the      *)
(*                          truthiness of milestone.subTasks               *)
(*   new Date()             the value of the clock variable now            *)
(* The reducer runs synchronously; all clock reads of one call are taken   *)
(* at the same instant, and the clock advances between calls (Tick).       *)
(***************************************************************************)
EXTENDS Integers, Sequences, FiniteSets, TLC

\* ------------------------------------------------------------------ bounds
MaxTime == 2
MaxReps == 2
MaxLogs == 2
MaxSteps == 3
MaxCatalog == 2

\* ------------------------------------------------------------- input sets
StepIds == {1, 2, 3}
TaskIds == {"t1", "t2"}
\* the (stepId, taskId) pairs toggled: two tasks under step 1, one under each
\* of steps 2 and 3
Targets == {<<1, "t1">>, <<1, "t2">>, <<2, "t1">>, <<3, "t1">>}
Roles == {"trainer", "admin"}
Users == {[id |-> "u1", role |-> "trainer"]}
ForeignId == "rX"

\* ---------------------------------------------------------------- values
NullUser == [id |-> "null", role |-> "null"]
undefinedAt == <<>>
undefinedBy == "undefined"

toISOString(t) == <<"iso", t>>

\* state.currentUser?.id
UserId(user) == IF user = NullUser THEN undefinedBy ELSE user.id

NullRep ==
  [id |-> "null", name |-> "null", stage |-> 0, createdAt |-> 0,
   updatedAt |-> 0, isArray |-> FALSE, milestones |-> <<>>]

\* ----------------------------------------------------------- array helpers
\* Array.prototype.map
Map(f(_), s) == [i \in 1..Len(s) |-> f(s[i])]

\* Array.prototype.every / some / filter(...).length
Every(p(_), s) == \A i \in 1..Len(s) : p(s[i])
Some(p(_), s) == \E i \in 1..Len(s) : p(s[i])
Count(p(_), s) == Cardinality({i \in 1..Len(s) : p(s[i])})

\* Array.prototype.find: the first matching element, or the given default
\* (undefined) when none matches
Find(p(_), s, none) ==
  IF Some(p, s)
  THEN s[CHOOSE i \in 1..Len(s) : p(s[i]) /\ \A j \in 1..(i-1) : ~p(s[j])]
  ELSE none

Max(a, b) == IF a >= b THEN a ELSE b

\* ------------------------------------------------------------------ state
VARIABLES
  isAuthenticated,  \* AppState.isAuthenticated
  currentUser,      \* AppState.currentUser (NullUser for null)
  userRole,         \* AppState.userRole ("null" for null)
  reps,             \* AppState.reps
  trainers,         \* AppState.trainers
  auditLogs,        \* AppState.auditLogs
  selectedRep,      \* AppState.selectedRep (NullRep for null)
  now,              \* the wall clock read by new Date() and Date.now()
  nextId,           \* the next identifier generateId hands out (the fixture
                    \* rep holds r1)
  snapshot,         \* the state value passed to the last reducer call, as it
                    \* reads after that call (reps and selectedRep)
  lastAction,       \* the action of the last reducer call
  lastToggle,       \* history: last completed value dispatched per
                    \* (repId, stepId, taskId) on a rep of the list
  peakCompleted,    \* history: per rep id, the largest number of completed
                    \* milestones the rep had after any UPDATE_SUBTASK
  checklistSteps,   \* the checklist catalog (checklist-steps.json)
  built,            \* the last createMilestoneFromStep call: its stepId and
                    \* its result
  steps             \* number of dispatched actions

state == <<isAuthenticated, currentUser, userRole, reps, trainers, auditLogs,
           selectedRep>>
vars == <<isAuthenticated, currentUser, userRole, reps, trainers, auditLogs,
          selectedRep, now, nextId, snapshot, lastAction, lastToggle,
          peakCompleted, checklistSteps, built, steps>>

\* generateId() of @/lib/utils: a fresh identifier on every call
generateId(n) == "r" \o ToString(n)

RepIds == {"r1", ForeignId} \cup {generateId(n) : n \in 2..(MaxReps + 1)}

\* ---------------------------------------------------------------- fixtures
\* A milestone and a subtask as the dummy data may hold them
FixtureSubTask(taskId, completed) ==
  [taskId |-> taskId, description |-> <<"Task", taskId>>,
   completed |-> completed,
   completedAt |-> IF completed THEN toISOString(1) ELSE undefinedAt,
   completedBy |-> IF completed THEN "u1" ELSE undefinedBy]

FixtureMilestones ==
  { <<>>,
    \* a step recorded without a subTasks list
    << [stepId |-> 1, title |-> <<"Step", 1>>, completed |-> FALSE,
        completedAt |-> undefinedAt, completedBy |-> undefinedBy,
        hasSubTasks |-> FALSE, subTasks |-> <<>>] >>,
    \* a completed step
    << [stepId |-> 1, title |-> <<"Step", 1>>, completed |-> TRUE,
        completedAt |-> toISOString(1), completedBy |-> "u1",
        hasSubTasks |-> TRUE,
        subTasks |-> << FixtureSubTask("t1", TRUE) >>] >> }

FreshRep ==
  [id |-> "r1", name |-> "a", stage |-> 1, createdAt |-> 1,
   updatedAt |-> 1, isArray |-> TRUE, milestones |-> <<>>]

\* the dummy reps: without a milestones array, with an empty one, with a
\* step that has no subTasks list, with a completed step
FixtureReps ==
  { [FreshRep EXCEPT !.isArray = FALSE] }
  \cup { [FreshRep EXCEPT !.milestones = ms,
                          !.stage = 1 + Count(LAMBDA m : m.completed, ms)] :
           ms \in FixtureMilestones }

\* ----------------------------------------------------- checklist catalog
\* checklist-steps.json: step definitions with ordered subtask definitions
TaskDefs ==
  { << >>,
    << [taskId |-> "t1", description |-> "first"] >>,
    << [taskId |-> "t1", description |-> "first"],
       [taskId |-> "t2", description |-> "second"] >>,
    << [taskId |-> "t2", description |-> "second"],
       [taskId |-> "t1", description |-> "first"] >> }

StepDefs ==
  [stepId : {1, 2}, title : {"Intro", "Setup"}, subTasks : TaskDefs]

Catalogs == UNION {[1..n -> StepDefs] : n \in 0..MaxCatalog}

\* the stepIds asked for; no catalog has step 3
AskedStepIds == {1, 2, 3}

\* the catalog of the store's specifications, which never read it
CatalogFixture ==
  << [stepId |-> 1, title |-> "Intro",
      subTasks |-> << [taskId |-> "t1", description |-> "first"] >>] >>

\* undefined, the result of find without a match
undefinedStep == [stepId |-> 0, title |-> "undefined", subTasks |-> <<>>]

\* null, the result of createMilestoneFromStep without a step
nullMilestone ==
  [stepId |-> 0, title |-> "null", completed |-> FALSE, subTasks |-> <<>>]

getChecklistSteps == checklistSteps

getStepById(stepId) ==
  Find(LAMBDA step : step.stepId = stepId, checklistSteps, undefinedStep)

\* mutant: a placeholder milestone in place of null
createMilestoneFromStep_placeholder(stepId) ==
  LET step == getStepById(stepId)
  IN [stepId |-> stepId,
      title |-> step.title,
      completed |-> FALSE,
      subTasks |-> Map(LAMBDA task : [taskId |-> task.taskId,
                                      description |-> task.description,
                                      completed |-> FALSE],
                       step.subTasks)]

createMilestoneFromStep(stepId) ==
  LET step == getStepById(stepId)
  IN IF step = undefinedStep
     THEN nullMilestone
     ELSE [stepId |-> stepId,
           title |-> step.title,
           completed |-> FALSE,
           subTasks |-> Map(LAMBDA task : [taskId |-> task.taskId,
                                           description |-> task.description,
                                           completed |-> FALSE],
                            step.subTasks)]

NotBuilt == [stepId |-> 0, milestone |-> nullMilestone]

NoToggles == [k \in RepIds \X StepIds \X TaskIds |-> "none"]

\* initialState
InitStore ==
  /\ isAuthenticated = FALSE
  /\ currentUser = NullUser
  /\ userRole = "null"
  /\ \E rep \in FixtureReps : reps = << rep >>
  /\ trainers = << [id |-> "ft1", name |-> "trainer"] >>
  /\ auditLogs = <<>>
  /\ selectedRep = NullRep
  /\ now = 1
  /\ nextId = 2
  /\ snapshot = [reps |-> reps, selectedRep |-> selectedRep]
  /\ lastAction = [type |-> "INIT"]
  /\ lastToggle = NoToggles
  /\ peakCompleted = [id \in RepIds |-> 0]
  /\ built = NotBuilt
  /\ steps = 0

\* initialState and the catalog import
Init == InitStore /\ checklistSteps = CatalogFixture

\* The state value handed to a reducer call that changes nothing in place
Untouched == [reps |-> reps, selectedRep |-> selectedRep]

\* ---------------------------------------------------------- case 'SIGN_IN'
SignIn(user) ==
  /\ isAuthenticated' = TRUE
  /\ currentUser' = user
  /\ snapshot' = Untouched
  /\ lastAction' = [type |-> "SIGN_IN", payload |-> user]
  /\ UNCHANGED <<userRole, reps, trainers, auditLogs, selectedRep, now,
                 nextId, lastToggle, peakCompleted,
                 checklistSteps, built>>

\* --------------------------------------------------------- case 'SIGN_OUT'
\* mutant: the role is kept
SignOut_keepsRole ==
  /\ isAuthenticated' = FALSE
  /\ currentUser' = NullUser
  /\ snapshot' = Untouched
  /\ lastAction' = [type |-> "SIGN_OUT"]
  /\ UNCHANGED <<userRole, reps, trainers, auditLogs, selectedRep, now,
                 nextId, lastToggle, peakCompleted, checklistSteps, built>>

\* mutant: the user is kept
SignOut_keepsUser ==
  /\ isAuthenticated' = FALSE
  /\ userRole' = "null"
  /\ snapshot' = Untouched
  /\ lastAction' = [type |-> "SIGN_OUT"]
  /\ UNCHANGED <<currentUser, reps, trainers, auditLogs, selectedRep, now,
                 nextId, lastToggle, peakCompleted, checklistSteps, built>>

SignOut ==
  /\ isAuthenticated' = FALSE
  /\ currentUser' = NullUser
  /\ userRole' = "null"
  /\ snapshot' = Untouched
  /\ lastAction' = [type |-> "SIGN_OUT"]
  /\ UNCHANGED <<reps, trainers, auditLogs, selectedRep, now, nextId,
                 lastToggle, peakCompleted,
                 checklistSteps, built>>

\* --------------------------------------------------------- case 'SET_ROLE'
SetRole(role) ==
  /\ userRole' = role
  /\ currentUser' = IF currentUser # NullUser
                    THEN [currentUser EXCEPT !.role = role]
                    ELSE NullUser
  /\ snapshot' = Untouched
  /\ lastAction' = [type |-> "SET_ROLE", payload |-> role]
  /\ UNCHANGED <<isAuthenticated, reps, trainers, auditLogs, selectedRep,
                 now, nextId, lastToggle, peakCompleted,
                 checklistSteps, built>>

\* ---------------------------------------------------------- case 'ADD_REP'
\* payloads: Omit<Rep, 'id' | 'createdAt' | 'updatedAt'>
NewRepPayloads ==
  { [name |-> "b", stage |-> 1, isArray |-> TRUE, milestones |-> <<>>] }

newRep(payload, id, date) ==
  [id |-> id, name |-> payload.name, stage |-> payload.stage,
   createdAt |-> date, updatedAt |-> date,
   isArray |-> payload.isArray, milestones |-> payload.milestones]

AddRep(payload) ==
  /\ Len(reps) < MaxReps
  /\ reps' = Append(reps, newRep(payload, generateId(nextId), now))
  /\ nextId' = nextId + 1
  /\ snapshot' = Untouched
  /\ lastAction' = [type |-> "ADD_REP", payload |-> payload]
  /\ UNCHANGED <<isAuthenticated, currentUser, userRole, trainers, auditLogs,
                 selectedRep, now, lastToggle, peakCompleted,
                 checklistSteps, built>>

\* ------------------------------------------------------- case 'UPDATE_REP'
\* updates: Partial<Rep>, a record holding the patched fields only
Patches == { [name |-> "c"], [stage |-> 1], [name |-> "d", stage |-> 3] }

\* { ...rep, ...updates, updatedAt: new Date() }
Merge(rep, updates, date) ==
  [f \in DOMAIN rep |->
     IF f = "updatedAt" THEN date
     ELSE IF f \in DOMAIN updates THEN updates[f] ELSE rep[f]]

\* mutant: the selection is not patched
UpdateRep_listOnly(id, updates) ==
  /\ reps' = Map(LAMBDA rep : IF rep.id = id THEN Merge(rep, updates, now)
                              ELSE rep, reps)
  /\ snapshot' = Untouched
  /\ lastAction' = [type |-> "UPDATE_REP",
                    payload |-> [id |-> id, updates |-> updates]]
  /\ UNCHANGED <<isAuthenticated, currentUser, userRole, trainers, auditLogs,
                 selectedRep, now, nextId, lastToggle, peakCompleted,
                 checklistSteps, built>>

UpdateRep(id, updates) ==
  /\ reps' = Map(LAMBDA rep : IF rep.id = id THEN Merge(rep, updates, now)
                              ELSE rep, reps)
  /\ selectedRep' = IF selectedRep # NullRep /\ selectedRep.id = id
                    THEN Merge(selectedRep, updates, now)
                    ELSE selectedRep
  /\ snapshot' = Untouched
  /\ lastAction' = [type |-> "UPDATE_REP",
                    payload |-> [id |-> id, updates |-> updates]]
  /\ UNCHANGED <<isAuthenticated, currentUser, userRole, trainers, auditLogs,
                 now, nextId, lastToggle, peakCompleted,
                 checklistSteps, built>>

\* ------------------------------------------------------- case 'SELECT_REP'
\* payloads: null, a rep of the list, or a rep record that is not in the list
ForeignRep == [FreshRep EXCEPT !.id = ForeignId, !.name = "x"]

SelectRep(rep) ==
  /\ selectedRep' = rep
  /\ snapshot' = Untouched
  /\ lastAction' = [type |-> "SELECT_REP", payload |-> rep]
  /\ UNCHANGED <<isAuthenticated, currentUser, userRole, reps, trainers,
                 auditLogs, now, nextId, lastToggle, peakCompleted,
                 checklistSteps, built>>

\* --------------------------------------------------- case 'UPDATE_SUBTASK'
\* the milestone created when the step has none
NewMilestone(stepId) ==
  [stepId |-> stepId, title |-> <<"Step", stepId>>, completed |-> FALSE,
   completedAt |-> undefinedAt, completedBy |-> undefinedBy,
   hasSubTasks |-> TRUE, subTasks |-> <<>>]

\* the subtask created when the milestone has none with this taskId
NewSubTask(taskId) ==
  [taskId |-> taskId, description |-> <<"Task", taskId>>,
   completed |-> FALSE, completedAt |-> undefinedAt,
   completedBy |-> undefinedBy]

\* mutant: the push is not conditional
PushedMilestones_always(rep, stepId) ==
  Append(IF rep.isArray THEN rep.milestones ELSE <<>>, NewMilestone(stepId))

\* the array `milestones` after the find and the conditional push
PushedMilestones(rep, stepId) ==
  LET milestones == IF rep.isArray THEN rep.milestones ELSE <<>>
  IN IF Some(LAMBDA m : m.stepId = stepId, milestones)
     THEN milestones
     ELSE Append(milestones, NewMilestone(stepId))

\* milestone.subTasks after the default to [] and the conditional push
PushedSubTasks(milestone, taskId) ==
  LET subTasks == IF milestone.hasSubTasks THEN milestone.subTasks ELSE <<>>
  IN IF Some(LAMBDA task : task.taskId = taskId, subTasks)
     THEN subTasks
     ELSE Append(subTasks, NewSubTask(taskId))

updatedSubTask(task, completed, date, user) ==
  [task EXCEPT !.completed = completed,
               !.completedAt = IF completed THEN toISOString(date)
                               ELSE undefinedAt,
               !.completedBy = IF completed THEN UserId(user)
                               ELSE undefinedBy]

\* mutant: the map callback lacks the taskId test
updatedSubTasks_everyTask(milestone, taskId, completed, date, user) ==
  Map(LAMBDA task : updatedSubTask(task, completed, date, user),
      PushedSubTasks(milestone, taskId))

updatedSubTasks(milestone, taskId, completed, date, user) ==
  Map(LAMBDA task : IF task.taskId # taskId THEN task
                    ELSE updatedSubTask(task, completed, date, user),
      PushedSubTasks(milestone, taskId))

\* mutant: some in place of every
allSubTasksComplete_some(subTasks) ==
  Some(LAMBDA task : task.completed, subTasks)

allSubTasksComplete(subTasks) == Every(LAMBDA task : task.completed, subTasks)

\* mutant: a completed milestone is stamped again
updatedMilestone_restamp(milestone, taskId, completed, date, user) ==
  LET subTasks == updatedSubTasks(milestone, taskId, completed, date, user)
      stamp == allSubTasksComplete(subTasks)
  IN [milestone EXCEPT
        !.completed = allSubTasksComplete(subTasks),
        !.completedAt = IF stamp THEN toISOString(date)
                        ELSE milestone.completedAt,
        !.completedBy = IF stamp THEN UserId(user)
                        ELSE milestone.completedBy,
        !.hasSubTasks = TRUE,
        !.subTasks = subTasks]

\* the object returned by the milestones.map callback for the target step
updatedMilestone(milestone, taskId, completed, date, user) ==
  LET subTasks == updatedSubTasks(milestone, taskId, completed, date, user)
      stamp == allSubTasksComplete(subTasks) /\ ~milestone.completed
  IN [milestone EXCEPT
        !.completed = allSubTasksComplete(subTasks),
        !.completedAt = IF stamp THEN toISOString(date)
                        ELSE milestone.completedAt,
        !.completedBy = IF stamp THEN UserId(user)
                        ELSE milestone.completedBy,
        !.hasSubTasks = TRUE,
        !.subTasks = subTasks]

\* mutant: the map callback lacks the stepId test
updatedMilestones_everyStep(rep, stepId, taskId, completed, date, user) ==
  Map(LAMBDA milestone :
        updatedMilestone(milestone, taskId, completed, date, user),
      PushedMilestones(rep, stepId))

updatedMilestones(rep, stepId, taskId, completed, date, user) ==
  Map(LAMBDA milestone :
        IF milestone.stepId # stepId THEN milestone
        ELSE updatedMilestone(milestone, taskId, completed, date, user),
      PushedMilestones(rep, stepId))

\* mutant: the filter lacks the completed test
completedSteps_everyStep(milestones) == Len(milestones)

completedSteps(milestones) == Count(LAMBDA m : m.completed, milestones)

\* mutant: the stage is derived from the count alone
newStage_countOnly(rep, milestones) == completedSteps(milestones) + 1

\* mutant: the count is not incremented
newStage_noPlusOne(rep, milestones) ==
  Max(rep.stage, completedSteps(milestones))

newStage(rep, milestones) == Max(rep.stage, completedSteps(milestones) + 1)

\* the object returned by the state.reps.map callback for the target rep
updatedRep(rep, stepId, taskId, completed, date, user) ==
  LET milestones ==
        updatedMilestones(rep, stepId, taskId, completed, date, user)
  IN [rep EXCEPT !.isArray = TRUE,
                 !.milestones = milestones,
                 !.stage = newStage(rep, milestones),
                 !.updatedAt = date]

\* mutant: the map callback lacks the rep.id test
updatedReps_everyRep(repId, stepId, taskId, completed, date, user) ==
  Map(LAMBDA rep : updatedRep(rep, stepId, taskId, completed, date, user),
      reps)

updatedReps(repId, stepId, taskId, completed, date, user) ==
  Map(LAMBDA rep : IF rep.id # repId THEN rep
                   ELSE updatedRep(rep, stepId, taskId, completed, date, user),
      reps)

\* What the two push calls and the subTasks default leave behind in the
\* objects of the state passed in: rep.milestones is the array pushed to,
\* and the target milestone of that array is the object whose subTasks is
\* pushed to.  A rep without a milestones array gets a local array instead.
mutatedRep(rep, stepId, taskId) ==
  IF rep.isArray
  THEN [rep EXCEPT !.milestones =
          Map(LAMBDA milestone :
                IF milestone.stepId # stepId THEN milestone
                ELSE [milestone EXCEPT
                        !.hasSubTasks = TRUE,
                        !.subTasks = PushedSubTasks(milestone, taskId)],
              PushedMilestones(rep, stepId))]
  ELSE rep

InList(repId) == Some(LAMBDA rep : rep.id = repId, reps)

\* The selection is a rep object of the list or a copy of one made by
\* UPDATE_REP's spread, so it holds the milestones array of the list entry
\* with its id (SelectionShares below).
mutatedState(repId, stepId, taskId) ==
  [reps |-> Map(LAMBDA rep : IF rep.id # repId THEN rep
                             ELSE mutatedRep(rep, stepId, taskId), reps),
   selectedRep |-> IF selectedRep.id = repId /\ InList(repId)
                   THEN mutatedRep(selectedRep, stepId, taskId)
                   ELSE selectedRep]

BoolStr(b) == IF b THEN "true" ELSE "false"

\* mutant: the selection is not replaced
UpdateSubtask_staleSelection(repId, stepId, taskId, completed) ==
  LET updated ==
        updatedReps(repId, stepId, taskId, completed, now, currentUser)
  IN /\ reps' = updated
     /\ selectedRep' = selectedRep
     /\ snapshot' = mutatedState(repId, stepId, taskId)
     /\ lastAction' = [type |-> "UPDATE_SUBTASK",
                       payload |-> [repId |-> repId, stepId |-> stepId,
                                    taskId |-> taskId,
                                    completed |-> completed]]
     /\ lastToggle' = IF InList(repId)
                      THEN [lastToggle EXCEPT ![<<repId, stepId, taskId>>] =
                              BoolStr(completed)]
                      ELSE lastToggle
     /\ peakCompleted' =
          [id \in RepIds |->
             IF id = repId /\ InList(repId)
             THEN LET ms == Find(LAMBDA r : r.id = id, updated,
                                 NullRep).milestones
                  IN Max(peakCompleted[id],
                         Cardinality({j \in 1..Len(ms) : ms[j].completed}))
             ELSE peakCompleted[id]]
     /\ UNCHANGED <<isAuthenticated, currentUser, userRole, trainers,
                    auditLogs, now, nextId, checklistSteps, built>>

UpdateSubtask(repId, stepId, taskId, completed) ==
  LET updated ==
        updatedReps(repId, stepId, taskId, completed, now, currentUser)
  IN /\ reps' = updated
     /\ selectedRep' = IF selectedRep # NullRep /\ selectedRep.id = repId
                       THEN Find(LAMBDA r : r.id = repId, updated, NullRep)
                       ELSE selectedRep
     /\ snapshot' = mutatedState(repId, stepId, taskId)
     /\ lastAction' = [type |-> "UPDATE_SUBTASK",
                       payload |-> [repId |-> repId, stepId |-> stepId,
                                    taskId |-> taskId,
                                    completed |-> completed]]
     /\ lastToggle' = IF InList(repId)
                      THEN [lastToggle EXCEPT ![<<repId, stepId, taskId>>] =
                              BoolStr(completed)]
                      ELSE lastToggle
     /\ peakCompleted' =
          [id \in RepIds |->
             IF id = repId /\ InList(repId)
             THEN LET ms == Find(LAMBDA r : r.id = id, updated,
                                 NullRep).milestones
                  IN Max(peakCompleted[id],
                         Cardinality({j \in 1..Len(ms) : ms[j].completed}))
             ELSE peakCompleted[id]]
     /\ UNCHANGED <<isAuthenticated, currentUser, userRole, trainers,
                    auditLogs, now, nextId, checklistSteps, built>>

\* ---------------------------------------------------- case 'ADD_AUDIT_LOG'
\* payloads: Omit<AuditLog, 'id' | 'timestamp'>
LogPayloads == { [action |-> "toggle"], [action |-> "create"] }

newLog(payload, date) ==
  [id |-> date, timestamp |-> date, action |-> payload.action]

\* mutant: the new entry is appended
AddAuditLog_append(payload) ==
  /\ Len(auditLogs) < MaxLogs
  /\ auditLogs' = Append(auditLogs, newLog(payload, now))
  /\ snapshot' = Untouched
  /\ lastAction' = [type |-> "ADD_AUDIT_LOG", payload |-> payload]
  /\ UNCHANGED <<isAuthenticated, currentUser, userRole, reps, trainers,
                 selectedRep, now, nextId, lastToggle, peakCompleted,
                 checklistSteps, built>>

AddAuditLog(payload) ==
  /\ Len(auditLogs) < MaxLogs
  /\ auditLogs' = << newLog(payload, now) >> \o auditLogs
  /\ snapshot' = Untouched
  /\ lastAction' = [type |-> "ADD_AUDIT_LOG", payload |-> payload]
  /\ UNCHANGED <<isAuthenticated, currentUser, userRole, reps, trainers,
                 selectedRep, now, nextId, lastToggle, peakCompleted,
                 checklistSteps, built>>

\* ------------------------------------------------------------------ default
Default ==
  /\ snapshot' = Untouched
  /\ lastAction' = [type |-> "UNKNOWN"]
  /\ UNCHANGED <<isAuthenticated, currentUser, userRole, reps, trainers,
                 auditLogs, selectedRep, now, nextId, lastToggle,
                 peakCompleted,
                 checklistSteps, built>>

\* The clock advances between reducer calls
Tick ==
  /\ now < MaxTime
  /\ now' = now + 1
  /\ UNCHANGED <<isAuthenticated, currentUser, userRole, reps, trainers,
                 auditLogs, selectedRep, nextId, snapshot, lastAction,
                 lastToggle, peakCompleted, checklistSteps, built, steps>>

\* ----------------------------------------------------------- specifications
ListIds == {reps[i].id : i \in 1..Len(reps)}

SelectPayloads == {NullRep, ForeignRep} \cup {reps[i] : i \in 1..Len(reps)}

\* one reducer call, counted
Counted == steps < MaxSteps /\ steps' = steps + 1

Next ==
  \/ \E user \in Users : Counted /\ SignIn(user)
  \/ Counted /\ SignOut
  \/ \E role \in Roles : Counted /\ SetRole(role)
  \/ \E payload \in NewRepPayloads : Counted /\ AddRep(payload)
  \/ \E id \in ListIds \cup {ForeignId}, updates \in Patches :
        Counted /\ UpdateRep(id, updates)
  \/ \E rep \in SelectPayloads : Counted /\ SelectRep(rep)
  \/ \E repId \in ListIds \cup {ForeignId}, target \in Targets,
        completed \in BOOLEAN :
        Counted /\ UpdateSubtask(repId, target[1], target[2], completed)
  \/ \E payload \in LogPayloads : Counted /\ AddAuditLog(payload)
  \/ Counted /\ Default
  \/ Tick

\* every action of the store, a bounded number of dispatches
Spec == Init /\ [][Next]_vars

\* toggles only, on the fixture rep and on an id that is not in the list
Toggle ==
  /\ \E repId \in ListIds \cup {ForeignId}, target \in Targets,
        completed \in BOOLEAN :
        UpdateSubtask(repId, target[1], target[2], completed)
  /\ UNCHANGED steps

SpecCascade == Init /\ [][Toggle]_vars

\* toggles only, on a rep that starts with stage 1 and no milestones
InitFresh == Init /\ reps = << FreshRep >>

SpecFresh == InitFresh /\ [][Toggle]_vars

\* toggles of steps 1 and 2 and sign-ins, on a rep that starts with stage 1
\* and no milestones
ToggleOrSignIn ==
  \/ \E repId \in ListIds, target \in Targets \ {<<3, "t1">>},
        completed \in BOOLEAN :
        UpdateSubtask(repId, target[1], target[2], completed)
          /\ UNCHANGED steps
  \/ \E user \in Users : SignIn(user) /\ UNCHANGED steps

SpecStamps == InitFresh /\ [][ToggleOrSignIn]_vars

\* a call of createMilestoneFromStep
CreateMilestone(stepId) ==
  /\ built' = [stepId |-> stepId,
               milestone |-> createMilestoneFromStep(stepId)]
  /\ UNCHANGED <<isAuthenticated, currentUser, userRole, reps, trainers,
                 auditLogs, selectedRep, now, nextId, snapshot, lastAction,
                 lastToggle, peakCompleted, checklistSteps,
                 steps>>

\* any catalog of at most MaxCatalog steps
InitCatalog ==
  /\ InitStore
  /\ reps = << FreshRep >>
  /\ checklistSteps \in Catalogs

AskCatalog == \E stepId \in AskedStepIds : CreateMilestone(stepId)

SpecCatalog == InitCatalog /\ [][AskCatalog]_vars

\* ------------------------------------------------------------ model checks
\* the list entry with the given id (state.reps.find)
Entry(list, repId) == Find(LAMBDA r : r.id = repId, list, NullRep)

\* the milestones of a rep with the given stepId
StepsOf(rep, stepId) ==
  {rep.milestones[i] : i \in {j \in 1..Len(rep.milestones) :
                                 rep.milestones[j].stepId = stepId}}

\* the stepIds of the completed milestones of a rep
CompletedIds(rep) ==
  {rep.milestones[i].stepId :
     i \in {j \in 1..Len(rep.milestones) : rep.milestones[j].completed}}

IsToggle(action) == action.type = "UPDATE_SUBTASK"

\* the step is a reducer call of Spec
Dispatched == steps' = steps + 1

\* A selection whose id is in the list is the list entry (the same object,
\* or a spread copy holding the same milestones array).
SelectionShares ==
  selectedRep.id \in ListIds => selectedRep = Entry(reps, selectedRep.id)

\* ids are unique in the list
UniqueIds == \A i, j \in 1..Len(reps) : reps[i].id = reps[j].id => i = j

\* C1: across every UPDATE_SUBTASK step the list keeps its reps and no rep's
\* stage decreases, whatever the stepId, taskId and completed value.
C1_StageNonDecreasing ==
  [][IsToggle(lastAction') =>
       /\ Len(reps') = Len(reps)
       /\ \A i \in 1..Len(reps) :
            /\ reps'[i].id = reps[i].id
            /\ reps'[i].stage >= reps[i].stage]_vars

\* C1 witness: a toggle un-completed a milestone and the stage stayed above
\* 1 + the number of completed milestones.
C1_Witness ==
  /\ IsToggle(lastAction)
  /\ lastAction.payload.repId = "r1"
  /\ ~lastAction.payload.completed
  /\ \E m \in StepsOf(reps[1], lastAction.payload.stepId) :
       ~m.completed /\ m.completedAt # undefinedAt
  /\ reps[1].stage > 1 + completedSteps(reps[1].milestones)

\* C2: after UPDATE_SUBTASK on a rep of the list, the milestone with the
\* given stepId exists and is completed iff all of its subtasks are.
C2_MilestoneIsAndOfSubTasks ==
  (IsToggle(lastAction) /\ lastAction.payload.repId \in ListIds) =>
    LET rep == Entry(reps, lastAction.payload.repId)
        ms == StepsOf(rep, lastAction.payload.stepId)
    IN /\ ms # {}
       /\ \A m \in ms :
            m.completed <=> \A i \in 1..Len(m.subTasks) :
                              m.subTasks[i].completed

\* C2 witness: a step had all of its two subtasks completed, and toggling
\* one of them back left the milestone not completed.
C2_Witness ==
  /\ IsToggle(lastAction)
  /\ lastAction.payload.repId = "r1"
  /\ ~lastAction.payload.completed
  /\ \E m \in StepsOf(reps[1], lastAction.payload.stepId) :
       /\ Len(m.subTasks) = 2
       /\ ~m.completed
       /\ \E i, j \in 1..2 : m.subTasks[i].completed /\ ~m.subTasks[j].completed
       /\ \E old \in StepsOf(snapshot.reps[1], lastAction.payload.stepId) :
            old.completed /\ Len(old.subTasks) = 2

\* C3: the completed flag of subtask (repId, stepId, taskId) is the value
\* of the last UPDATE_SUBTASK dispatched for that triple on a listed rep.
C3_LastValueWins ==
  \A k \in DOMAIN lastToggle :
    lastToggle[k] # "none" =>
      /\ k[1] \in ListIds
      /\ LET ms == StepsOf(Entry(reps, k[1]), k[2])
         IN /\ ms # {}
            /\ \A m \in ms :
                 /\ \E i \in 1..Len(m.subTasks) : m.subTasks[i].taskId = k[3]
                 /\ \A i \in 1..Len(m.subTasks) :
                      m.subTasks[i].taskId = k[3] =>
                        BoolStr(m.subTasks[i].completed) = lastToggle[k]

\* C3 witness: two tasks of step 1 were last toggled to different values,
\* and the last action toggled another step.
C3_Witness ==
  /\ lastToggle[<<"r1", 1, "t1">>] = "false"
  /\ lastToggle[<<"r1", 1, "t2">>] = "true"
  /\ IsToggle(lastAction)
  /\ lastAction.payload.repId = "r1"
  /\ lastAction.payload.stepId = 2
  /\ lastToggle[<<"r1", 2, "t1">>] # "none"

\* C4: after UPDATE_SUBTASK on a rep of the list, the rep's stage is the
\* larger of its stage before and 1 + its completed milestones after.
C4_StageIsMax ==
  [][IsToggle(lastAction') =>
       \A i \in 1..Len(reps) :
         reps[i].id = lastAction'.payload.repId =>
           reps'[i].stage =
             Max(reps[i].stage,
                 1 + Cardinality({j \in 1..Len(reps'[i].milestones) :
                                    reps'[i].milestones[j].completed}))]_vars

\* C4 witness: a toggle completed a second milestone and raised the stage
\* from 2 to 3.
C4_Witness ==
  /\ IsToggle(lastAction)
  /\ lastAction.payload.repId = "r1"
  /\ lastAction.payload.completed
  /\ CompletedIds(reps[1]) = {2, 3}
  /\ reps[1].stage = 3
  /\ snapshot.reps[1].stage = 2

\* C5 as stated: on a rep that starts with stage 1 and no milestones,
\* whenever exactly the milestones 1 and 2 are completed the stage is 3.
C5_StageThreeWheneverOneAndTwo ==
  CompletedIds(reps[1]) = {1, 2} => reps[1].stage = 3

\* C5 amended: on a rep that starts with stage 1 and no milestones, after
\* toggles only, whenever exactly the milestones 1 and 2 are completed the
\* stage is at least 3, and it is 3 when the rep never had more than two
\* completed milestones at once (the stage is 1 + the largest number of
\* milestones that were completed at once).
C5_StageThreeUnlessPeakedHigher ==
  CompletedIds(reps[1]) = {1, 2} =>
    /\ reps[1].stage >= 3
    /\ reps[1].stage = 1 + peakCompleted["r1"]
    /\ peakCompleted["r1"] <= 2 => reps[1].stage = 3

\* C5 witness: toggles completed steps 1 and 2 and nothing else, ever.
C5_Witness ==
  /\ IsToggle(lastAction)
  /\ lastAction.payload.repId = "r1"
  /\ CompletedIds(reps[1]) = {1, 2}
  /\ peakCompleted["r1"] = 2
  /\ reps[1].stage = 3

\* C6: a reducer call leaves the state value it was given as it was: the
\* reps, their milestone lists and the milestones' subtask lists read the
\* same after the call as before it.
C6_PreviousStateUntouched ==
  [][Dispatched => snapshot' = [reps |-> reps, selectedRep |-> selectedRep]]_vars

\* C7: after UPDATE_REP(id, updates) with a selection of that id, every
\* field named in updates has the patched value in the selection and in the
\* list entry with that id.
C7_PatchInLockStep ==
  (lastAction.type = "UPDATE_REP" /\ selectedRep # NullRep
     /\ selectedRep.id = lastAction.payload.id) =>
    \A f \in DOMAIN lastAction.payload.updates :
      /\ selectedRep[f] = lastAction.payload.updates[f]
      /\ lastAction.payload.id \in ListIds =>
           Entry(reps, lastAction.payload.id)[f] = selectedRep[f]

\* C7 witness: ADD_REP, SELECT_REP of the new rep, then UPDATE_REP of its
\* name and stage.
C7_Witness ==
  /\ lastAction.type = "UPDATE_REP"
  /\ lastAction.payload.id = generateId(2)
  /\ lastAction.payload.updates = [name |-> "d", stage |-> 3]
  /\ Len(reps) = 2
  /\ reps[2].id = generateId(2)
  /\ selectedRep.id = generateId(2)
  /\ selectedRep.name = "d" /\ reps[2].name = "d"
  /\ selectedRep.stage = 3 /\ reps[2].stage = 3

\* C8: ADD_AUDIT_LOG puts one new entry at index 0 and keeps the entries
\* that were there, in order, behind it; no other action changes the log.
C8_LogPrependOnly ==
  [][IF Dispatched /\ lastAction'.type = "ADD_AUDIT_LOG"
     THEN /\ Len(auditLogs') = Len(auditLogs) + 1
          /\ auditLogs'[1].action = lastAction'.payload.action
          /\ auditLogs'[1].timestamp = now
          /\ \A i \in 1..Len(auditLogs) : auditLogs'[i + 1] = auditLogs[i]
     ELSE auditLogs' = auditLogs]_vars

\* C8 witness: a second entry was put in front of an earlier, different one.
C8_Witness ==
  /\ lastAction.type = "ADD_AUDIT_LOG"
  /\ Len(auditLogs) = 2
  /\ auditLogs[1].action = "create"
  /\ auditLogs[2].action = "toggle"
  /\ auditLogs[1].timestamp > auditLogs[2].timestamp

\* C9: UPDATE_SUBTASK for a repId that is not in the list leaves the list
\* of reps as it was.
C9_AbsentRepNoChange ==
  [][(IsToggle(lastAction') /\ lastAction'.payload.repId \notin ListIds) =>
       reps' = reps]_vars

\* C9 witness: a toggle for an id that is not in a list of two reps, one
\* of which has milestones.
C9_Witness ==
  /\ IsToggle(lastAction)
  /\ lastAction.payload.repId \notin ListIds
  /\ Len(reps) = 2
  /\ \E i \in 1..2 : reps[i].milestones # <<>>

\* C10: after UPDATE_SUBTASK(repId, ...) a selection with that id, when the
\* list has a rep with that id, is the updated list entry (same milestones,
\* stage and updatedAt); a selection with another id, or none, is unchanged.
C10_SelectionFollowsList ==
  [][(Dispatched /\ IsToggle(lastAction')) =>
       IF selectedRep # NullRep /\ selectedRep.id = lastAction'.payload.repId
       THEN lastAction'.payload.repId \in ListIds =>
              LET entry == Entry(reps', lastAction'.payload.repId)
              IN /\ selectedRep'.milestones = entry.milestones
                 /\ selectedRep'.stage = entry.stage
                 /\ selectedRep'.updatedAt = entry.updatedAt
       ELSE selectedRep' = selectedRep]_vars

\* C10 witness: the selected rep was toggled at a later time than it was
\* selected, and the selection shows the new milestone and time.
C10_Witness ==
  /\ IsToggle(lastAction)
  /\ selectedRep.id = lastAction.payload.repId
  /\ selectedRep.id \in ListIds
  /\ snapshot.selectedRep.id = selectedRep.id
  /\ snapshot.selectedRep.updatedAt < selectedRep.updatedAt
  /\ selectedRep.milestones # <<>>
  /\ selectedRep = Entry(reps, selectedRep.id)

\* the milestone of list[i] at position j, or a milestone that was never
\* there (not completed, no stamps) when the rep has no such position
Before(list, i, j) ==
  IF j <= Len(list[i].milestones) THEN list[i].milestones[j]
  ELSE NewMilestone(0)

\* C11: UPDATE_SUBTASK stamps the target milestone with the current time and
\* the current user's id when it turns it from not completed to completed,
\* and leaves the stamps of a milestone that was completed as they were.
C11_StampOnlyOnCompletion ==
  [][(Dispatched /\ IsToggle(lastAction')) =>
       \A i \in 1..Len(reps) :
         reps[i].id = lastAction'.payload.repId =>
           \A j \in 1..Len(reps'[i].milestones) :
             LET after == reps'[i].milestones[j]
                 before == Before(reps, i, j)
             IN after.stepId = lastAction'.payload.stepId =>
                  /\ (~before.completed /\ after.completed) =>
                       /\ after.completedAt = <<"iso", now>>
                       /\ after.completedBy =
                            IF currentUser = NullUser THEN "undefined"
                            ELSE currentUser.id
                  /\ before.completed =>
                       /\ after.completedAt = before.completedAt
                       /\ after.completedBy = before.completedBy]_vars

\* C11 witness: a signed-in user completed a milestone after the clock had
\* advanced, and the milestone carries that time and that user.
C11_Witness ==
  /\ IsToggle(lastAction)
  /\ lastAction.payload.repId = "r1"
  /\ lastAction.payload.completed
  /\ now = 2
  /\ currentUser # NullUser
  /\ \E m \in StepsOf(reps[1], lastAction.payload.stepId) :
       /\ m.completed
       /\ m.completedAt = <<"iso", 2>>
       /\ m.completedBy = currentUser.id
  /\ StepsOf(snapshot.reps[1], lastAction.payload.stepId) = {}

\* C12: SIGN_OUT leaves no current user, isAuthenticated false and no role,
\* and leaves reps, trainers, auditLogs and selectedRep as they were.
C12_SignOutClearsAuthOnly ==
  [][(Dispatched /\ lastAction'.type = "SIGN_OUT") =>
       /\ currentUser' = NullUser
       /\ isAuthenticated' = FALSE
       /\ userRole' = "null"
       /\ reps' = reps
       /\ trainers' = trainers
       /\ auditLogs' = auditLogs
       /\ selectedRep' = selectedRep]_vars

\* C12 witness: a sign-out with a selection and an audit log in place.
C12_Witness ==
  /\ lastAction.type = "SIGN_OUT"
  /\ ~isAuthenticated /\ currentUser = NullUser /\ userRole = "null"
  /\ selectedRep # NullRep
  /\ Len(auditLogs) = 1

\* C13: createMilestoneFromStep returns, for a stepId of the catalog, a
\* milestone with that stepId, the title of the (first) catalog entry,
\* completed false and one not-completed subtask per subtask definition, in
\* catalog order, with its taskId and description; for a stepId without a
\* catalog entry it returns null.
C13_DefaultMilestoneFromCatalog ==
  built # NotBuilt =>
    LET hits == {i \in 1..Len(checklistSteps) :
                   checklistSteps[i].stepId = built.stepId}
    IN IF hits = {}
       THEN built.milestone = nullMilestone
       ELSE LET step == checklistSteps[CHOOSE i \in hits :
                                         \A h \in hits : i <= h]
                m == built.milestone
            IN /\ m # nullMilestone
               /\ m.stepId = built.stepId
               /\ m.title = step.title
               /\ m.completed = FALSE
               /\ Len(m.subTasks) = Len(step.subTasks)
               /\ \A k \in 1..Len(step.subTasks) :
                    /\ m.subTasks[k].taskId = step.subTasks[k].taskId
                    /\ m.subTasks[k].description = step.subTasks[k].description
                    /\ m.subTasks[k].completed = FALSE

\* C13 witness: step 2, the second entry of the catalog, was built with its
\* two subtasks in catalog order.
C13_Witness ==
  /\ Len(checklistSteps) = 2
  /\ checklistSteps[1].stepId = 1
  /\ checklistSteps[2].stepId = 2
  /\ checklistSteps[2].title = "Setup"
  /\ built.stepId = 2
  /\ built.milestone.title = "Setup"
  /\ Len(built.milestone.subTasks) = 2
  /\ built.milestone.subTasks[1].taskId = "t2"
  /\ built.milestone.subTasks[2].taskId = "t1"

\* the milestones of a rep have distinct stepIds and the subtasks of each
\* milestone have distinct taskIds
UniqueKeys(rep) ==
  /\ \A i, j \in 1..Len(rep.milestones) :
       rep.milestones[i].stepId = rep.milestones[j].stepId => i = j
  /\ \A i \in 1..Len(rep.milestones) :
       \A k, l \in 1..Len(rep.milestones[i].subTasks) :
         rep.milestones[i].subTasks[k].taskId =
           rep.milestones[i].subTasks[l].taskId => k = l

\* the number of subtasks with the given taskId under the given stepId
TasksOf(rep, stepId, taskId) ==
  Cardinality({<<i, k>> \in (1..Len(rep.milestones)) \X (1..2 * Cardinality(TaskIds)) :
                 /\ rep.milestones[i].stepId = stepId
                 /\ k <= Len(rep.milestones[i].subTasks)
                 /\ rep.milestones[i].subTasks[k].taskId = taskId})

\* C14: toggles keep the keys unique: every rep has at most one milestone
\* per stepId and every milestone at most one subtask per taskId, and a
\* toggle appends one milestone exactly when the step had none and one
\* subtask exactly when the step had none with that taskId.
C14_KeysStayUnique ==
  /\ [](\A i \in 1..Len(reps) : UniqueKeys(reps[i]))
  /\ [][IsToggle(lastAction') =>
          \A i \in 1..Len(reps) :
            reps[i].id = lastAction'.payload.repId =>
              LET stepId == lastAction'.payload.stepId
                  taskId == lastAction'.payload.taskId
              IN /\ Len(reps'[i].milestones) =
                      Len(reps[i].milestones) +
                        (IF StepsOf(reps[i], stepId) = {} THEN 1 ELSE 0)
                 /\ Cardinality(StepsOf(reps'[i], stepId)) = 1
                 /\ TasksOf(reps'[i], stepId, taskId) = 1
                 /\ \A m \in StepsOf(reps'[i], stepId) :
                      Len(m.subTasks) =
                        (IF TasksOf(reps[i], stepId, taskId) = 0 THEN 1 ELSE 0)
                        + (IF StepsOf(reps[i], stepId) = {} THEN 0
                           ELSE Len((CHOOSE old \in StepsOf(reps[i], stepId) :
                                       TRUE).subTasks))]_vars

\* C14 witness: toggles created three milestones, one of them with two
\* subtasks, and toggled an existing subtask again.
C14_Witness ==
  /\ IsToggle(lastAction)
  /\ lastAction.payload.repId = "r1"
  /\ Len(reps[1].milestones) = 3
  /\ Len(snapshot.reps[1].milestones) = 3
  /\ \E m \in StepsOf(reps[1], 1) : Len(m.subTasks) = 2
  /\ UniqueKeys(reps[1])

\* C15: the ids of the entries of the audit log are pairwise distinct, also
\* when two ADD_AUDIT_LOG actions are applied without the clock advancing.
C15_LogIdsDistinct ==
  \A i, j \in 1..Len(auditLogs) :
    auditLogs[i].id = auditLogs[j].id => i = j

\* C16: UPDATE_SUBTASK never clears the selection: a selection that is
\* there before the action is there after it, whatever the repId.
C16_ToggleKeepsSelection ==
  [][(Dispatched /\ IsToggle(lastAction') /\ selectedRep # NullRep) =>
       selectedRep' # NullRep]_vars

\* C17: UPDATE_SUBTASK(repId, stepId, taskId, completed) leaves every rep
\* with another id, every milestone of the target rep with another stepId
\* and every subtask of the target milestone with another taskId as it was,
\* and leaves isAuthenticated, currentUser, userRole, trainers and
\* auditLogs unchanged.
C17_ToggleFrame ==
  [][(Dispatched /\ IsToggle(lastAction')) =>
       LET repId == lastAction'.payload.repId
           stepId == lastAction'.payload.stepId
           taskId == lastAction'.payload.taskId
       IN /\ Len(reps') = Len(reps)
          /\ \A i \in 1..Len(reps) :
               IF reps[i].id # repId
               THEN reps'[i] = reps[i]
               ELSE \A j \in 1..Len(reps[i].milestones) :
                      IF reps[i].milestones[j].stepId # stepId
                      THEN reps'[i].milestones[j] = reps[i].milestones[j]
                      ELSE \A k \in 1..Len(reps[i].milestones[j].subTasks) :
                             reps[i].milestones[j].subTasks[k].taskId # taskId
                               => reps'[i].milestones[j].subTasks[k] =
                                    reps[i].milestones[j].subTasks[k]
          /\ isAuthenticated' = isAuthenticated
          /\ currentUser' = currentUser
          /\ userRole' = userRole
          /\ trainers' = trainers
          /\ auditLogs' = auditLogs]_vars

\* C17 witness: with two reps in the list, a toggle added a second subtask
\* to one of the two milestones of the first rep.
C17_Witness ==
  /\ IsToggle(lastAction)
  /\ lastAction.payload.repId = "r1"
  /\ Len(reps) = 2
  /\ Len(reps[1].milestones) = 2
  /\ \E m \in StepsOf(reps[1], lastAction.payload.stepId) :
       Len(m.subTasks) = 2
  /\ \E old \in StepsOf(snapshot.reps[1], lastAction.payload.stepId) :
       \E m \in StepsOf(reps[1], lastAction.payload.stepId) :
         old.subTasks[1] = m.subTasks[1]

\* C18: whenever a current user is present and userRole is set, the role
\* embedded in the user equals userRole.
C18_RolesAgree ==
  (currentUser # NullUser /\ userRole # "null") =>
    currentUser.role = userRole

\* C19: isAuthenticated is true if and only if currentUser is present.
C19_AuthenticatedIffUser ==
  isAuthenticated <=> currentUser # NullUser

\* C19 witness: a SET_ROLE applied after a sign-in patched the user that
\* is present, and the state is authenticated.
C19_Witness ==
  /\ lastAction.type = "SET_ROLE"
  /\ isAuthenticated
  /\ currentUser # NullUser
  /\ currentUser.role = "admin"

\* C20: starting from a rep with no milestones, every milestone that is not
\* completed has completedAt and completedBy unset.
C20_OpenMilestoneHasNoStamp ==
  \A i \in 1..Len(reps) :
    \A j \in 1..Len(reps[i].milestones) :
      LET m == reps[i].milestones[j]
      IN ~m.completed =>
           m.completedAt = undefinedAt /\ m.completedBy = undefinedBy

====
